---- MODULE Spec2Model ----
(***************************************************************************)
(* Model of the telemetry analyzers of f1_data_fetcher.py.                 *)
(*                                                                         *)
(* A lap's telemetry is a set of co-indexed sample series (Speed,          *)
(* Distance, Brake, Throttle, nGear).  Python indices start at 0, TLA+     *)
(* sequences at 1: At(s, j) reads s[j] of the source.  Samples are         *)
(* integer valued; every mean, variance and percentage is kept as an exact *)
(* fraction <<numerator, denominator>>, so no rounding is modelled.        *)
(* A channel that the telemetry frame lacks is the empty list [] of the    *)
(* source (lines 367-370 and alike); reading an index past the end of a    *)
(* series is Python's IndexError, which every analyzer re-raises and main  *)
(* turns into exit status 1 (lines 874-876): pc = "raised".                *)
(***************************************************************************)
EXTENDS Integers, Sequences, FiniteSets, TLC

VARIABLES cmd, absent, speed, distance, brake, throttle, gear,
          pc, i, corners, cornerIdx, last_corner_dist, result,
          driver_laps, lapPos, tire_stints, current_compound, stint_laps,
          argc, fetch_drivers, calls, stdout, stderr, exit_status

vars == <<cmd, absent, speed, distance, brake, throttle, gear,
          pc, i, corners, cornerIdx, last_corner_dist, result,
          driver_laps, lapPos, tire_stints, current_compound, stint_laps,
          argc, fetch_drivers, calls, stdout, stderr, exit_status>>

procVars == <<argc, fetch_drivers, calls, stdout, stderr, exit_status>>
chanVars == <<cmd, absent, speed, distance, brake, throttle, gear>>
cornerVars == <<i, corners, cornerIdx, last_corner_dist>>
stintVars == <<driver_laps, lapPos, tire_stints, current_compound, stint_laps>>

(***************************************************************************)
(* Bounds of the explored inputs.                                          *)
(***************************************************************************)
MaxSegs == 5
AbsentMaxSegs == 3
MaxRuns == 4
MaxRepeats == 8
MaxPulses == 17
MaxStintGroups == 3
MaxGearLen == 4
MaxFuelLaps == 6
MaxEnergyLen == 3
MaxArgc == 9
MaxScanSegs == 4

(***************************************************************************)
(* Generic helpers over sample series.                                     *)
(***************************************************************************)
At(s, j) == s[j + 1]

Rep(v, n) == [x \in 1..n |-> v]

Min2(a, b) == IF a < b THEN a ELSE b

Max2(a, b) == IF a > b THEN a ELSE b

\* s[a:b] of the source, for 0 <= a
Slice(s, a, b) == SubSeq(s, a + 1, Min2(b, Len(s)))

\* sum and maximum of s[a:b]; long ranges are split in halves to keep the
\* evaluation shallow
RECURSIVE SumRange(_, _, _)
SumRange(s, a, b) ==
  IF a >= b THEN 0
  ELSE IF b = a + 1 THEN At(s, a)
  ELSE SumRange(s, a, (a + b) \div 2) + SumRange(s, (a + b) \div 2, b)

SumSeq(s) == SumRange(s, 0, Len(s))

RECURSIVE MaxRange(_, _, _)
MaxRange(s, a, b) ==
  IF b = a + 1 THEN At(s, a)
  ELSE Max2(MaxRange(s, a, (a + b) \div 2), MaxRange(s, (a + b) \div 2, b))

MaxSeq(s) == MaxRange(s, 0, Len(s))

RECURSIVE Flatten(_)
Flatten(ss) == IF ss = <<>> THEN <<>> ELSE Head(ss) \o Flatten(Tail(ss))

SeqsUpTo(S, n) == UNION {[1..m -> S] : m \in 0..n}

\* the outcome of an index read past the end of a series, and of a search
\* loop that ends without "break"
IndexError == -1

NoHit == -2

(***************************************************************************)
(* get_corner_analysis, lines 373-451.                                     *)
(***************************************************************************)
min_corner_distance == 150
min_speed_drop == 40

\* line 379: while i < len(speed) - 40
InLoop == i < Len(speed) - 40

\* lines 383-385: speed_drop = mean(speed[i-10:i]) - speed[i], as the
\* fraction <<sum - n*speed[i], n>> with n the length of the slice
speed_drop ==
  LET w == Slice(speed, i - 10, i)
  IN  <<SumSeq(w) - Len(w) * At(speed, i), Len(w)>>

\* line 388: speed_drop > min_speed_drop
DropExceeds == speed_drop[1] > min_speed_drop * speed_drop[2]

\* lines 393-396, the loop body at index j: IndexError when brake[j] is read
\* past the end of brake, j on "break", NoHit to go on
BrakeHit(j) ==
  IF j >= Len(brake) THEN IndexError
  ELSE IF At(brake, j) > 25 THEN j
  ELSE NoHit

\* the first result in index order that ends a loop; the rest is not run
OrElseMutant(first, rest) == IF rest # NoHit THEN rest ELSE first

OrElse(first, rest) == IF first # NoHit THEN first ELSE rest

\* line 393: for j in range(a, b), run as its lower half followed by its
\* upper half
RECURSIVE FirstBrakeHit(_, _)
FirstBrakeHit(a, b) ==
  IF a >= b THEN NoHit
  ELSE IF b = a + 1 THEN BrakeHit(a)
  ELSE OrElse(FirstBrakeHit(a, (a + b) \div 2), FirstBrakeHit((a + b) \div 2, b))

\* lines 392-396: brake_point_idx = i unless the loop breaks at some j
brake_point_idx ==
  LET hit == FirstBrakeHit(Max2(0, i - 35), i)
  IN  IF hit = NoHit THEN i ELSE hit

\* lines 402-404, the loop body at index j on the running apex_idx: replaced
\* only by a strictly smaller speed
ApexStepMutant(best, j) == IF At(speed, j) <= At(speed, best) THEN j ELSE best

ApexStep(best, j) == IF At(speed, j) < At(speed, best) THEN j ELSE best

\* line 401: for j in range(a, b), lower half first
RECURSIVE ApexLoop(_, _, _)
\* the upper half starts from the value the lower half ended with
ApexLoopUpper(m, b, lower) == CHOOSE r \in {ApexLoop(m, b, best) : best \in {lower}} : TRUE

ApexLoop(a, b, best) ==
  IF a >= b THEN best
  ELSE IF b = a + 1 THEN ApexStep(best, a)
  ELSE ApexLoopUpper((a + b) \div 2, b, ApexLoop(a, (a + b) \div 2, best))

\* lines 399-404
apex_idx == ApexLoop(i, Min2(i + 40, Len(speed)), i)

\* lines 409-411, the loop body at index j: IndexError when throttle[j] is
\* read past the end of throttle
ExitHit(j, apex) ==
  IF j >= Len(throttle) THEN IndexError
  ELSE IF At(throttle, j) > 60 /\ At(speed, j) > At(speed, apex) + 15 THEN j
  ELSE NoHit

\* line 408: for j in range(a, b), lower half first
RECURSIVE FirstExitHit(_, _, _)
FirstExitHit(a, b, apex) ==
  IF a >= b THEN NoHit
  ELSE IF b = a + 1 THEN ExitHit(a, apex)
  ELSE OrElse(FirstExitHit(a, (a + b) \div 2, apex),
              FirstExitHit((a + b) \div 2, b, apex))

\* lines 407-411: exit_idx = apex_idx unless the loop breaks at some j
ExitFrom(apex) ==
  LET hit == FirstExitHit(apex, Min2(apex + 40, Len(speed)), apex)
  IN  IF hit = NoHit THEN apex ELSE hit

exit_idx == CHOOSE r \in {ExitFrom(apex) : apex \in {apex_idx}} : TRUE

\* line 414
speed_delta == At(speed, brake_point_idx) - At(speed, apex_idx)

\* line 417: only significant corners are kept
SignificantMutant == speed_delta >= 0

Significant == speed_delta > 25

\* line 435
CornerType(v) == IF v < 100 THEN "slow" ELSE IF v < 180 THEN "medium" ELSE "fast"

\* line 389: the spacing test against the previous accepted apex
SpacingOkMutant == (At(distance, i) + min_corner_distance) > last_corner_dist

SpacingOk == (At(distance, i) - last_corner_dist) > min_corner_distance

\* lines 382-445, what one loop iteration does at index i: "advance" (not a
\* candidate), "reject", "accept", or "raise" on an IndexError.  distance[i]
\* is read only when the speed drop is large enough (short-circuit "and").
Outcome ==
  IF ~(i > 20) THEN "advance"
  ELSE IF ~DropExceeds THEN "advance"
  ELSE IF i >= Len(distance) THEN "raise"
  ELSE IF ~SpacingOk THEN "advance"
  ELSE IF brake_point_idx = IndexError \/ exit_idx = IndexError THEN "raise"
  ELSE IF ~Significant THEN "reject"
  ELSE IF \/ brake_point_idx >= Len(distance)
          \/ brake_point_idx >= Len(brake)
          \/ apex_idx >= Len(distance)
          \/ exit_idx >= Len(distance)
          \/ exit_idx >= Len(throttle) THEN "raise"
  ELSE "accept"

\* lines 418-436
corner_data ==
  [cornerNumber |-> Len(corners) + 1,
   brakePoint |-> [distance |-> At(distance, brake_point_idx),
                   speed |-> At(speed, brake_point_idx),
                   brakeForce |-> At(brake, brake_point_idx)],
   apex |-> [distance |-> At(distance, apex_idx),
             minSpeed |-> At(speed, apex_idx)],
   exit |-> [distance |-> At(distance, exit_idx),
             speed |-> At(speed, exit_idx),
             throttle |-> At(throttle, exit_idx)],
   speedDelta |-> speed_delta,
   type |-> CornerType(At(speed, apex_idx))]

\* lines 417-439: the candidate is a significant corner
CornerAccept ==
  /\ cmd = "corner-analysis" /\ pc = "scan"
  /\ InLoop
  /\ Outcome = "accept"
  /\ corners' = Append(corners, corner_data)
  /\ cornerIdx' = Append(cornerIdx, [cand |-> i, brakePoint |-> brake_point_idx,
                                     apex |-> apex_idx, exit |-> exit_idx])
  /\ last_corner_dist' = At(distance, apex_idx)
  /\ i' = exit_idx + 20
  /\ UNCHANGED <<procVars, chanVars, pc, result, stintVars>>

\* lines 441 and 443: i += 5, the step past an index that gave no corner
SkipMutant(c) == c

Skip(c) == c + 5

\* lines 440-441: a candidate whose speed delta is too small
CornerReject ==
  /\ cmd = "corner-analysis" /\ pc = "scan"
  /\ InLoop
  /\ Outcome = "reject"
  /\ i' = Skip(i)
  /\ UNCHANGED <<procVars, chanVars, pc, result, stintVars, corners, cornerIdx, last_corner_dist>>

\* lines 442-445: not a candidate
CornerAdvance ==
  /\ cmd = "corner-analysis" /\ pc = "scan"
  /\ InLoop
  /\ Outcome = "advance"
  /\ i' = IF i > 20 THEN Skip(i) ELSE i + 1
  /\ UNCHANGED <<procVars, chanVars, pc, result, stintVars, corners, cornerIdx, last_corner_dist>>

\* an IndexError inside the loop: lines 452-453 re-raise, main exits 1
CornerRaise ==
  /\ cmd = "corner-analysis" /\ pc = "scan"
  /\ InLoop
  /\ Outcome = "raise"
  /\ pc' = "raised"
  /\ result' = [error |-> "Failed to fetch corner analysis"]
  /\ UNCHANGED <<procVars, chanVars, cornerVars, stintVars>>

\* lines 447-451
CornerReturn ==
  /\ cmd = "corner-analysis" /\ pc = "scan"
  /\ ~InLoop
  /\ pc' = "done"
  /\ result' = [corners |-> corners]
  /\ UNCHANGED <<procVars, chanVars, cornerVars, stintVars>>

(***************************************************************************)
(* get_brake_analysis, lines 504-542.                                      *)
(***************************************************************************)
\* lines 523-530, for the zone brake[zone_start:k]
BrakeZone(zone_start, k) ==
  LET zone_data == Slice(brake, zone_start, k)
      speed_data == Slice(speed, zone_start, k)
  IN  [startDistance |-> At(distance, zone_start),
       endDistance |-> At(distance, k - 1),
       peakBrakeForce |-> MaxSeq(zone_data),
       avgBrakeForce |-> <<SumSeq(zone_data), Len(zone_data)>>,
       speedLoss |-> IF Len(speed_data) > 0
                       THEN speed_data[1] - speed_data[Len(speed_data)]
                       ELSE 0,
       duration |-> <<Len(zone_data), 100>>]

\* line 522: the test that retains a closed zone
ZoneRetained(zone_data) == Len(zone_data) > 5

\* lines 514-530: the body of the loop at sample k, on the loop state st;
\* st.raised records an IndexError when distance is read past its end,
\* after which nothing more is executed
BrakeStep(st, k) ==
  IF st.raised THEN st
  ELSE IF At(brake, k) > 10 /\ ~st.in_brake_zone
    THEN [st EXCEPT !.in_brake_zone = TRUE, !.zone_start = k]
  ELSE IF At(brake, k) <= 10 /\ st.in_brake_zone
    THEN IF ZoneRetained(Slice(brake, st.zone_start, k))
           THEN IF st.zone_start >= Len(distance) \/ k - 1 >= Len(distance)
                  THEN [st EXCEPT !.in_brake_zone = FALSE, !.raised = TRUE]
                  ELSE [st EXCEPT !.in_brake_zone = FALSE,
                                  !.brake_zones = Append(@, BrakeZone(st.zone_start, k))]
           ELSE [st EXCEPT !.in_brake_zone = FALSE]
  ELSE st

\* line 513: for i in range(a, b), in index order: the range is run as its
\* lower half followed by its upper half, and an exception ends the loop
RECURSIVE BrakeLoop(_, _, _)
BrakeLoopUpper(m, b, lower) == IF lower.raised THEN lower ELSE BrakeLoop(m, b, lower)

BrakeLoop(a, b, st) ==
  IF a >= b THEN st
  ELSE IF b = a + 1 THEN BrakeStep(st, a)
  ELSE BrakeLoopUpper((a + b) \div 2, b, BrakeLoop(a, (a + b) \div 2, st))

\* lines 509-530
FoundBrakeZones ==
  BrakeLoop(0, Len(brake),
            [in_brake_zone |-> FALSE, zone_start |-> 0, brake_zones |-> <<>>,
             raised |-> FALSE])

\* line 539: brake_zones[:10]
TopZonesMutant(zs) == zs

TopZones(zs) == SubSeq(zs, 1, Min2(10, Len(zs)))

\* lines 533-542
BrakeResult(found) ==
  LET pos == SelectSeq(brake, LAMBDA b : b > 0)
  IN  [brakeZones |-> TopZones(found.brake_zones),
       totalBrakeTimePercent |->
         IF Len(brake) > 0 THEN <<Len(pos) * 100, Len(brake)>> ELSE <<0, 1>>,
       avgBrakeForce |->
         IF Len(pos) > 0 THEN <<SumSeq(pos), Len(pos)>> ELSE <<0, 1>>]

\* lines 508-542, without an exception.  Line 534: "brake > 0" compares the
\* list [] of an absent Brake channel with an int, a TypeError.
BrakeAnalysis ==
  /\ cmd = "brake-analysis" /\ pc = "scan"
  /\ "Brake" \notin absent
  /\ ~FoundBrakeZones.raised
  /\ result' = BrakeResult(FoundBrakeZones)
  /\ pc' = "done"
  /\ UNCHANGED <<procVars, chanVars, cornerVars, stintVars>>

\* lines 543-544 re-raise, main exits 1
BrakeRaise ==
  /\ cmd = "brake-analysis" /\ pc = "scan"
  /\ "Brake" \in absent \/ FoundBrakeZones.raised
  /\ pc' = "raised"
  /\ result' = [error |-> "Failed to fetch brake analysis"]
  /\ UNCHANGED <<procVars, chanVars, cornerVars, stintVars>>

(***************************************************************************)
(* Exact arithmetic for the derived indices.  A fraction is <<p, q>> with  *)
(* q > 0; a mixed number [w, n, d] is w + n/d with 0 <= n < d, which keeps *)
(* the intermediate products small.                                        *)
(***************************************************************************)
MixedOf(p, q) == [w |-> p \div q, n |-> p % q, d |-> q]

MixedSub(x, y) ==
  LET num == x.n * y.d - y.n * x.d
      den == x.d * y.d
  IN  IF num < 0 THEN [w |-> x.w - y.w - 1, n |-> num + den, d |-> den]
      ELSE [w |-> x.w - y.w, n |-> num, d |-> den]

\* x / k for an integer k > 0
MixedDivInt(x, k) == [w |-> x.w \div k, n |-> (x.w % k) * x.d + x.n, d |-> x.d * k]

\* min(m, x) and max(m, x) for an integer m
MixedMin(m, x) == IF x.w >= m THEN [w |-> m, n |-> 0, d |-> 1] ELSE x

MixedMax(m, x) == IF x.w < m THEN [w |-> m, n |-> 0, d |-> 1] ELSE x

\* x + y
MixedAdd(x, y) ==
  IF x.n * y.d + y.n * x.d >= x.d * y.d
    THEN [w |-> x.w + y.w + 1, n |-> x.n * y.d + y.n * x.d - x.d * y.d, d |-> x.d * y.d]
    ELSE [w |-> x.w + y.w, n |-> x.n * y.d + y.n * x.d, d |-> x.d * y.d]

MixedGeq(x, m) == x.w >= m

MixedLeq(x, m) == x.w < m \/ (x.w = m /\ x.n = 0)

(***************************************************************************)
(* get_downforce_analysis, lines 464-491.                                  *)
(***************************************************************************)
\* the k-th smallest sample of s, k counted from 0
KthSmallest(s, k) ==
  CHOOSE v \in {s[j] : j \in 1..Len(s)} :
    /\ Cardinality({j \in 1..Len(s) : s[j] < v}) <= k
    /\ Cardinality({j \in 1..Len(s) : s[j] <= v}) > k

\* 100 * np.percentile(s, q) for a non-empty s: linear interpolation between
\* the two order statistics around position (n - 1) * q / 100
PercentileScaled(s, q) ==
  LET h == (Len(s) - 1) * q
      lo == KthSmallest(s, h \div 100)
  IN  IF h % 100 = 0 THEN 100 * lo
      ELSE 100 * lo + (h % 100) * (KthSmallest(s, h \div 100 + 1) - lo)

\* np.mean(speed[mask]) if np.any(mask) else 0
MaskedAvg(masked) == IF Len(masked) > 0 THEN <<SumSeq(masked), Len(masked)>> ELSE <<0, 1>>

\* line 469-470: the comparison that selects the high-speed samples
HighSpeedMask(x, p75) == 100 * x > p75

high_speed_avg ==
  LET p75 == PercentileScaled(speed, 75)
  IN  MaskedAvg(SelectSeq(speed, LAMBDA x : HighSpeedMask(x, p75)))

\* lines 473-474
low_speed_avg ==
  LET p25 == PercentileScaled(speed, 25)
  IN  MaskedAvg(SelectSeq(speed, LAMBDA x : 100 * x < p25))

\* line 477: np.var(speed), the mean squared deviation from the mean
speed_variance ==
  LET n == Len(speed)
      sum == SumSeq(speed)
      sumsq == SumSeq([j \in 1..n |-> speed[j] * speed[j]])
  IN  <<n * sumsq - sum * sum, n * n>>

\* line 481: min(100, high_speed_avg / 350 * 70 + (30 - speed_variance / 100));
\* 100 times the second argument is 20 * hsa + 3000 - variance
DownforceIndex(hsa, var) ==
  MixedMin(100, MixedDivInt(MixedSub(MixedOf(20 * hsa[1] + 3000 * hsa[2], hsa[2]),
                                     MixedOf(var[1], var[2])), 100))

\* lines 483-491; aerodynamicEfficiency is the quotient num / den
DownforceResult(hsa, lsa, var) ==
  [downforceIndex |-> DownforceIndex(hsa, var),
   highSpeedAvg |-> hsa,
   lowSpeedAvg |-> lsa,
   speedVariance |-> var,
   aerodynamicEfficiency |-> [num |-> hsa, den |-> <<var[1] + var[2], var[2]>>]]

\* lines 467-491 without an exception.  np.percentile of an empty input
\* raises IndexError in some numpy releases and returns nan in others; with
\* nan both masks are empty and the guards give the defaults.
DownforceAnalysis ==
  /\ cmd = "downforce-analysis" /\ pc = "scan"
  /\ result' = IF Len(speed) = 0
                 THEN DownforceResult(<<0, 1>>, <<0, 1>>, <<0, 1>>)
                 ELSE DownforceResult(high_speed_avg, low_speed_avg, speed_variance)
  /\ pc' = "done"
  /\ UNCHANGED <<procVars, chanVars, cornerVars, stintVars>>

\* lines 492-493 re-raise, main exits 1
DownforceRaise ==
  /\ cmd = "downforce-analysis" /\ pc = "scan"
  /\ Len(speed) = 0
  /\ pc' = "raised"
  /\ result' = [error |-> "Failed to fetch downforce analysis"]
  /\ UNCHANGED <<procVars, chanVars, cornerVars, stintVars>>

(***************************************************************************)
(* get_throttle_trace, lines 555-579.                                      *)
(***************************************************************************)
\* lines 559-561: count / len(s) * 100 as <<numerator, denominator>>, 0 for
\* an empty series
Pct(count, s) == IF Len(s) > 0 THEN <<count * 100, Len(s)>> ELSE <<0, 1>>

\* lines 566-570: the loop body at index k on the loop state st; st.raised
\* records an IndexError when distance is read past its end
ThrottleStep(st, k) ==
  IF st.raised THEN st
  ELSE IF At(throttle, k - 1) < 50 /\ At(throttle, k) >= 50
    THEN IF k >= Len(distance)
           THEN [st EXCEPT !.raised = TRUE]
           ELSE [st EXCEPT !.throttle_points =
                   Append(@, [distance |-> At(distance, k),
                              throttleLevel |-> At(throttle, k)])]
  ELSE st

\* for i in range(a, b), lower half first; an exception ends the loop
RECURSIVE ThrottleLoop(_, _, _)
ThrottleLoopUpper(m, b, lower) ==
  IF lower.raised THEN lower ELSE ThrottleLoop(m, b, lower)

ThrottleLoop(a, b, st) ==
  IF a >= b THEN st
  ELSE IF b = a + 1 THEN ThrottleStep(st, a)
  ELSE ThrottleLoopUpper((a + b) \div 2, b, ThrottleLoop(a, (a + b) \div 2, st))

\* line 565: the last index the loop visits is below this bound
ThrottleScanEnd == Len(throttle) - 1

\* lines 564-570
FoundThrottlePoints ==
  ThrottleLoop(1, ThrottleScanEnd, [throttle_points |-> <<>>, raised |-> FALSE])

\* line 578: throttle_points[:15]
FirstPoints(ps) == SubSeq(ps, 1, Min2(15, Len(ps)))

\* line 559: throttle >= 95
FullThrottle(t) == t >= 95

\* line 560: (throttle > 20) & (throttle < 95)
PartialThrottleMutant(t) == t >= 20 /\ t < 95

PartialThrottle(t) == t > 20 /\ t < 95

\* line 561: throttle <= 20
Coasting(t) == t <= 20

\* lines 558-579 without an exception
ThrottleAnalysis ==
  /\ cmd = "throttle-trace" /\ pc = "scan"
  /\ ~FoundThrottlePoints.raised
  /\ result' =
       [fullThrottlePct |-> Pct(Len(SelectSeq(throttle, FullThrottle)), throttle),
        partialThrottlePct |-> Pct(Len(SelectSeq(throttle, PartialThrottle)), throttle),
        coastPct |-> Pct(Len(SelectSeq(throttle, Coasting)), throttle),
        throttleApplicationPoints |-> FirstPoints(FoundThrottlePoints.throttle_points)]
  /\ pc' = "done"
  /\ UNCHANGED <<procVars, chanVars, cornerVars, stintVars>>

\* lines 580-581 re-raise, main exits 1
ThrottleRaise ==
  /\ cmd = "throttle-trace" /\ pc = "scan"
  /\ FoundThrottlePoints.raised
  /\ pc' = "raised"
  /\ result' = [error |-> "Failed to fetch throttle trace"]
  /\ UNCHANGED <<procVars, chanVars, cornerVars, stintVars>>

(***************************************************************************)
(* get_tire_degradation, lines 252-297, and calculate_degradation, lines   *)
(* 299-305.  A compound is a string held as its sequence of characters; a  *)
(* lap time is a whole number of seconds; the missing values of pandas and *)
(* Python's None are values no compound and no lap time can equal.         *)
(***************************************************************************)
NaN == <<"NaN">>

NaT == -1

None == <<"None">>

\* pd.notna on a cell of a column whose missing value is na
notna(v, na) == v # na

LowerCase ==
  <<"a", "b", "c", "d", "e", "f", "g", "h", "i", "j", "k", "l", "m",
    "n", "o", "p", "q", "r", "s", "t", "u", "v", "w", "x", "y", "z">>

UpperCase ==
  <<"A", "B", "C", "D", "E", "F", "G", "H", "I", "J", "K", "L", "M",
    "N", "O", "P", "Q", "R", "S", "T", "U", "V", "W", "X", "Y", "Z">>

\* str.upper() on one character
UpperChar(c) ==
  IF \E k \in 1..26 : LowerCase[k] = c
    THEN UpperCase[CHOOSE k \in 1..26 : LowerCase[k] = c]
    ELSE c

\* line 266: str(...).upper()
Upper(str) == [k \in 1..Len(str) |-> UpperChar(str[k])]

\* line 300
TooShortMutant(laps) == Len(laps) < 2

TooShort(laps) == Len(laps) < 3

\* lines 299-305, the quotient kept as <<numerator, denominator>>
calculate_degradation(laps) ==
  IF TooShort(laps) THEN <<0, 1>>
  ELSE <<laps[Len(laps)].time - laps[1].time, Len(laps)>>

\* lines 270-275 and 285-290: the stint being closed
StintRecord ==
  [compound |-> current_compound,
   laps |-> stint_laps,
   avgLapTime |-> <<SumSeq([k \in 1..Len(stint_laps) |-> stint_laps[k].time]),
                    Len(stint_laps)>>,
   degradation |-> calculate_degradation(stint_laps)]

\* lines 269-275 and 284-290: "if stint_laps: tire_stints.append(...)"
Flushed == IF stint_laps # <<>> THEN Append(tire_stints, StintRecord) ELSE tire_stints

\* line 268
NewStintMutant(compound) == TRUE

NewStint(compound) == compound # current_compound

\* lines 264-282: one iteration of the loop over the driver's laps
StintLap ==
  /\ cmd = "tire-degradation" /\ pc = "scan"
  /\ lapPos < Len(driver_laps)
  /\ IF notna(driver_laps[lapPos + 1].Compound, NaN) /\ notna(driver_laps[lapPos + 1].LapTime, NaT)
       THEN IF NewStint(Upper(driver_laps[lapPos + 1].Compound))
              THEN /\ tire_stints' = Flushed
                   /\ current_compound' = Upper(driver_laps[lapPos + 1].Compound)
                   /\ stint_laps' = <<[lapNumber |-> driver_laps[lapPos + 1].LapNumber,
                                       time |-> driver_laps[lapPos + 1].LapTime]>>
              ELSE /\ stint_laps' = Append(stint_laps,
                                      [lapNumber |-> driver_laps[lapPos + 1].LapNumber,
                                       time |-> driver_laps[lapPos + 1].LapTime])
                   /\ UNCHANGED <<tire_stints, current_compound>>
       ELSE UNCHANGED <<tire_stints, current_compound, stint_laps>>
  /\ lapPos' = lapPos + 1
  /\ UNCHANGED <<procVars, chanVars, cornerVars, driver_laps, pc, result>>

\* lines 284-295: the loop is over; the open stint is closed and returned
StintReturn ==
  /\ cmd = "tire-degradation" /\ pc = "scan"
  /\ lapPos = Len(driver_laps)
  /\ tire_stints' = Flushed
  /\ result' = [stints |-> Flushed]
  /\ pc' = "done"
  /\ UNCHANGED <<procVars, chanVars, cornerVars, driver_laps, lapPos, current_compound, stint_laps>>

(***************************************************************************)
(* get_fuel_effect, lines 608-636.                                         *)
(***************************************************************************)
\* line 615: driver_laps.dropna(subset=['LapTime'])
valid_laps == SelectSeq(driver_laps, LAMBDA lap : notna(lap.LapTime, NaT))

\* line 617
TooFewLaps(laps) == Len(laps) < 5

\* line 625: the slope of the least-squares line through the points
\* (xs[k], ys[k]), as <<numerator, denominator>>
PolyfitSlope(xs, ys) ==
  <<Len(xs) * SumSeq([k \in 1..Len(xs) |-> xs[k] * ys[k]]) - SumSeq(xs) * SumSeq(ys),
    Len(xs) * SumSeq([k \in 1..Len(xs) |-> xs[k] * xs[k]]) - SumSeq(xs) * SumSeq(xs)>>

\* lines 620-629
fuel_effect_per_lap ==
  IF Len(valid_laps) > 1
    THEN PolyfitSlope([k \in 1..Len(valid_laps) |-> valid_laps[k].LapNumber],
                      [k \in 1..Len(valid_laps) |-> valid_laps[k].LapTime])
    ELSE <<0, 1>>

\* lines 614-634
FuelEffect ==
  /\ cmd = "fuel-effect" /\ pc = "scan"
  /\ result' =
       IF TooFewLaps(valid_laps)
         THEN [fuelEffect |-> <<0, 1>>]
         ELSE [fuelEffectPerLap |-> fuel_effect_per_lap,
               totalFuelEffect |-> <<fuel_effect_per_lap[1] * Len(valid_laps),
                                     fuel_effect_per_lap[2]>>]
  /\ pc' = "done"
  /\ UNCHANGED <<procVars, chanVars, cornerVars, stintVars>>

(***************************************************************************)
(* get_gear_usage, lines 583-606.                                          *)
(***************************************************************************)
\* line 598: f'gear{g}'
GearKey(g) == <<"gear1", "gear2", "gear3", "gear4", "gear5", "gear6", "gear7", "gear8">>[g]

\* line 596: range(1, 9)
GearBuckets == 1..8

\* line 597: gear == g
GearMatchesMutant(x, g) == x >= g

GearMatches(x, g) == x = g

\* line 597, the percentage kept as <<numerator, denominator>>
usage_pct(g) ==
  IF Len(gear) > 0
    THEN <<Len(SelectSeq(gear, LAMBDA x : GearMatches(x, g))) * 100, Len(gear)>>
    ELSE <<0, 1>>

\* lines 595-598
gear_usage ==
  [key \in {GearKey(g) : g \in GearBuckets} |->
     usage_pct(CHOOSE g \in GearBuckets : GearKey(g) = key)]

\* lines 592-604
GearAnalysis ==
  /\ cmd = "gear-usage" /\ pc = "scan"
  /\ result' = [gearUsage |-> gear_usage]
  /\ pc' = "done"
  /\ UNCHANGED <<procVars, chanVars, cornerVars, stintVars>>

(***************************************************************************)
(* The energy-analysis command, lines 826-869 of main.                     *)
(***************************************************************************)
\* line 845: np.sum(brake * speed) / 1000 behind its guard, as a fraction
brake_energy ==
  IF Len(brake) > 0 /\ Len(speed) > 0
    THEN <<SumSeq([k \in 1..Len(brake) |-> brake[k] * speed[k]]), 1000>>
    ELSE <<0, 1>>

\* line 847: brake_energy * 0.65
energy_recovery(be) == <<13 * be[1], 20 * be[2]>>

\* line 849: full_throttle_pct * 0.8 + (100 - lift_coast_pct) * 0.2, capped
pu_stress(full, lift) ==
  MixedMin(100, MixedAdd(MixedOf(4 * full[1], 5 * full[2]),
                         MixedOf(100 * lift[2] - lift[1], 5 * lift[2])))

\* line 850: 0.8 + (lift_coast_pct / 100) * 0.3
fuel_efficiency(lift) == <<800 * lift[2] + 3 * lift[1], 1000 * lift[2]>>

\* line 851: (100 - lift_coast_pct) * 0.6 + (energy_recovery / 100) * 0.4
efficiency_score(lift, rec) ==
  MixedAdd(MixedOf(3 * (100 * lift[2] - lift[1]), 5 * lift[2]),
           MixedOf(rec[1], 250 * rec[2]))

\* line 859: min(100, max(0, efficiency_score))
ScoreClampMutant(x) == MixedMax(0, x)

ScoreClamp(x) == MixedMin(100, MixedMax(0, x))

\* line 860
ersDeployment(full) ==
  IF full[1] > 70 * full[2] THEN "high"
  ELSE IF full[1] > 50 * full[2] THEN "medium" ELSE "low"

\* lines 838-863
EnergyResult(full, lift, be) ==
  [fullThrottlePct |-> full,
   liftAndCoastPct |-> lift,
   estimatedBrakeEnergy |-> be,
   estimatedEnergyRecovery |-> energy_recovery(be),
   efficiencyScore |-> ScoreClamp(efficiency_score(lift, energy_recovery(be))),
   ersDeployment |-> ersDeployment(full),
   puStress |-> pu_stress(full, lift),
   fuelEfficiency |-> fuel_efficiency(lift)]

EnergyAnalysis ==
  /\ cmd = "energy-analysis" /\ pc = "scan"
  /\ result' = EnergyResult(Pct(Len(SelectSeq(throttle, FullThrottle)), throttle),
                            Pct(Len(SelectSeq(throttle, Coasting)), throttle),
                            brake_energy)
  /\ pc' = "done"
  /\ UNCHANGED <<procVars, chanVars, cornerVars, stintVars>>

(***************************************************************************)
(* main, lines 638-876, and the calls each command makes into the data     *)
(* provider.  argc is len(sys.argv); calls logs every provider call with   *)
(* its outcome; exit_status is Running until the process ends.             *)
(***************************************************************************)
Running == -1

Commands ==
  {"session", "telemetry", "gps", "tire-degradation", "race-pace", "corner-analysis",
   "gear-usage", "fuel-effect", "downforce-analysis", "brake-analysis", "throttle-trace",
   "tire-analysis", "energy-analysis"}

\* the N of each command's "if len(sys.argv) < N" test
Required(c) ==
  CASE c = "session" -> 5
    [] c = "gps" -> 3
    [] c \in {"tire-degradation", "race-pace", "fuel-effect"} -> 6
    [] OTHER -> 7

EnoughArgsMutant(c, n) == TRUE

EnoughArgs(c, n) == n >= Required(c)

\* the provider calls a command makes when none of them fails, in order:
\* session lookup, session load and the telemetry fetches; for "session"
\* one fetch for each of the first three drivers that has a valid lap
\* (lines 85-108), for "telemetry" a second fetch when driver2 and lap2
\* are given (line 187)
Plan(c, n, drivers) ==
  CASE c = "gps" -> <<"get_event_schedule">>
    [] c \in {"tire-degradation", "race-pace", "fuel-effect"} -> <<"get_session", "load">>
    [] c = "session" -> <<"get_session", "load">> \o Rep("get_telemetry", Min2(3, drivers))
    [] c = "telemetry" ->
         <<"get_session", "load", "get_telemetry">>
           \o (IF n > 8 THEN <<"get_telemetry">> ELSE <<>>)
    [] OTHER -> <<"get_session", "load", "get_telemetry">>

\* lines 93-108: inside get_session_data a failed telemetry fetch is caught
\* by "except: continue"
SwallowedMutant(c, op) == op = "get_telemetry"

Swallowed(c, op) == c = "session" /\ op = "get_telemetry"

\* the state in which a command's analysis starts: the arguments were
\* accepted and every provider call succeeded
Fetched ==
  /\ argc = Required(cmd)
  /\ fetch_drivers = 0
  /\ calls = [k \in 1..Len(Plan(cmd, Required(cmd), 0)) |->
                [op |-> Plan(cmd, Required(cmd), 0)[k], ok |-> TRUE]]
  /\ stdout = <<>>
  /\ stderr = <<>>
  /\ exit_status = Running

\* lines 639-641: no command at all
Usage ==
  /\ pc = "start" /\ argc < 2
  /\ stdout' = Append(stdout, "Usage: python f1_data_fetcher.py <command> [args...]")
  /\ exit_status' = 1
  /\ pc' = "exit"
  /\ UNCHANGED <<chanVars, cornerVars, stintVars, result, argc, fetch_drivers, calls, stderr>>

\* lines 645-872: the chain of command tests, each with its argument count
\* test; the command's function is entered or an exception is raised
Dispatch ==
  /\ pc = "start" /\ argc >= 2
  /\ IF cmd \notin Commands
       THEN pc' = "except" /\ result' = [error |-> "Unknown command"]
     ELSE IF ~EnoughArgs(cmd, argc)
       THEN pc' = "except" /\ result' = [error |-> "Usage"]
     ELSE pc' = "calling" /\ UNCHANGED result
  /\ UNCHANGED <<procVars, chanVars, cornerVars, stintVars>>

\* the next provider call of the command, which succeeds or raises; a raise
\* leaves the function unless it is caught inside
ProviderCall ==
  /\ pc = "calling"
  /\ Len(calls) < Len(Plan(cmd, argc, fetch_drivers))
  /\ \E ok \in BOOLEAN :
       /\ calls' = Append(calls, [op |-> Plan(cmd, argc, fetch_drivers)[Len(calls) + 1],
                                  ok |-> ok])
       /\ IF ok \/ Swallowed(cmd, Plan(cmd, argc, fetch_drivers)[Len(calls) + 1])
            THEN UNCHANGED <<pc, result>>
            ELSE pc' = "except" /\ result' = [error |-> "Failed to fetch"]
  /\ UNCHANGED <<chanVars, cornerVars, stintVars, argc, fetch_drivers, stdout, stderr, exit_status>>

\* an exception raised by the command's own code between or after the
\* provider calls: int(year), .iloc[0] on no matching lap, an index error
LocalFailure ==
  /\ pc = "calling"
  /\ pc' = "except"
  /\ result' = [error |-> "Failed to fetch"]
  /\ UNCHANGED <<procVars, chanVars, cornerVars, stintVars>>

\* the command's function returns its result
Return ==
  /\ pc = "calling"
  /\ Len(calls) = Len(Plan(cmd, argc, fetch_drivers))
  /\ pc' = "print"
  /\ result' = [json |-> cmd]
  /\ UNCHANGED <<procVars, chanVars, cornerVars, stintVars>>

\* print(json.dumps(result)) and the normal end of main; json.dumps raises
\* TypeError on a value it cannot serialise, before anything is printed
PrintResult ==
  /\ pc = "print"
  /\ \E serialisable \in BOOLEAN :
       IF serialisable
         THEN /\ stdout' = Append(stdout, result)
              /\ exit_status' = 0
              /\ pc' = "exit"
              /\ UNCHANGED result
         ELSE /\ pc' = "except"
              /\ result' = [error |-> "not JSON serializable"]
              /\ UNCHANGED <<stdout, exit_status>>
  /\ UNCHANGED <<chanVars, cornerVars, stintVars, argc, fetch_drivers, calls, stderr>>

\* lines 874-876
ReportError ==
  /\ pc = "except"
  /\ stderr' = Append(stderr, result.error)
  /\ exit_status' = 1
  /\ pc' = "exit"
  /\ UNCHANGED <<chanVars, cornerVars, stintVars, result, argc, fetch_drivers, calls, stdout>>

(***************************************************************************)
(* Laps explored by the corner and brake analyzers: a lap is a sequence of *)
(* track segments, sampled at a fixed distance step.                       *)
(***************************************************************************)
\* a long and a short straight at full throttle
SegStraight == [speed |-> Rep(200, 30), brake |-> Rep(0, 30), throttle |-> Rep(100, 30)]

SegShort == [speed |-> Rep(200, 20), brake |-> Rep(0, 20), throttle |-> Rep(100, 20)]

\* a corner: 5 samples of braking at 150, then 10 samples at 80
SegCorner == [speed |-> Rep(150, 5) \o Rep(80, 10),
              brake |-> Rep(30, 5) \o Rep(0, 10),
              throttle |-> Rep(0, 15)]

\* a slow zone driven on the brake
SegSlow == [speed |-> Rep(20, 30), brake |-> Rep(60, 30), throttle |-> Rep(0, 30)]

Segments == {SegStraight, SegShort, SegCorner, SegSlow}

DSteps == {0, 4, 10}

Channels == {"Speed", "Distance", "Brake", "Throttle"}

LapSpeed(segs) == Flatten([k \in 1..Len(segs) |-> segs[k].speed])

LapBrake(segs) == Flatten([k \in 1..Len(segs) |-> segs[k].brake])

LapThrottle(segs) == Flatten([k \in 1..Len(segs) |-> segs[k].throttle])

LapDistance(segs, dstep) == [k \in 1..Len(LapSpeed(segs)) |-> dstep * (k - 1)]

\* lines 367-370, 464-465, 504-506: "values if <name> in columns else []"
Channel(name, values) == IF name \in absent THEN <<>> ELSE values

IdleCorner ==
  /\ i = 30
  /\ corners = <<>>
  /\ cornerIdx = <<>>
  /\ last_corner_dist = -min_corner_distance

\* lines 260-262
StintStart ==
  /\ lapPos = 0
  /\ tire_stints = <<>>
  /\ current_compound = None
  /\ stint_laps = <<>>

IdleStint ==
  /\ driver_laps = <<>>
  /\ StintStart

\* the state once the lap's telemetry is fetched; lines 373-377 for the
\* corner scan
InitLap ==
  /\ cmd \in {"corner-analysis", "brake-analysis", "downforce-analysis"}
  /\ \E segs \in SeqsUpTo(Segments, MaxSegs), dstep \in DSteps :
       /\ cmd = "corner-analysis" \/ dstep = 10
       /\ absent \in SUBSET Channels
       /\ absent = {} \/ Len(segs) <= AbsentMaxSegs
       /\ speed = Channel("Speed", LapSpeed(segs))
       /\ distance = Channel("Distance", LapDistance(segs, dstep))
       /\ brake = Channel("Brake", LapBrake(segs))
       /\ throttle = Channel("Throttle", LapThrottle(segs))
  /\ gear = <<>>
  /\ pc = "scan"
  /\ result = [none |-> TRUE]
  /\ IdleCorner
  /\ Fetched
  /\ IdleStint

NextLap ==
  \/ CornerAccept
  \/ CornerReject
  \/ CornerAdvance
  \/ CornerRaise
  \/ CornerReturn
  \/ BrakeAnalysis
  \/ BrakeRaise
  \/ DownforceAnalysis
  \/ DownforceRaise

SpecLap == InitLap /\ [][NextLap]_vars

(***************************************************************************)
(* Laps explored by the brake analyzer alone: up to MaxRuns braking runs   *)
(* of chosen lengths, then some runs of 6 samples, each run followed by    *)
(* one sample off the brake; the last run may last until the final sample. *)
(***************************************************************************)
RunLens == {3, 5, 6}

\* brake > 10 is braking: 11 and 60 are on, 0 and 10 are off
OnLevels == {11, 60}

OffLevels == {0, 10}

BrakeRuns(lens, onv, offv, open) ==
  LET runs == Flatten([k \in 1..Len(lens) |-> Rep(onv, lens[k]) \o <<offv>>])
  IN  IF open /\ Len(runs) > 0 THEN SubSeq(runs, 1, Len(runs) - 1) ELSE runs

InitBrake ==
  /\ cmd = "brake-analysis"
  /\ absent = {}
  /\ \E lens \in SeqsUpTo(RunLens, MaxRuns), reps \in 0..MaxRepeats,
        onv \in OnLevels, offv \in OffLevels, open \in BOOLEAN :
       brake = BrakeRuns(lens \o Rep(6, reps), onv, offv, open)
  /\ speed = [k \in 1..Len(brake) |-> 250 - k]
  /\ distance = [k \in 1..Len(brake) |-> 5 * (k - 1)]
  /\ throttle = <<>>
  /\ gear = <<>>
  /\ pc = "scan"
  /\ result = [none |-> TRUE]
  /\ IdleCorner
  /\ Fetched
  /\ IdleStint

NextBrake ==
  \/ BrakeAnalysis

SpecBrake == InitBrake /\ [][NextBrake]_vars

(***************************************************************************)
(* Laps explored by the throttle analyzer: a two-sample pattern repeated   *)
(* up to MaxPulses times, then up to two more samples.                     *)
(***************************************************************************)
ThrottleLevels == {20, 49, 50, 95}

InitThrottle ==
  /\ cmd = "throttle-trace"
  /\ \E unit \in [1..2 -> ThrottleLevels], reps \in 0..MaxPulses,
        tail \in SeqsUpTo(ThrottleLevels, 2) :
       /\ absent \in SUBSET {"Throttle", "Distance"}
       /\ absent = {} \/ reps <= 1
       /\ throttle = Channel("Throttle", Flatten(Rep(unit, reps)) \o tail)
       /\ distance = Channel("Distance", [k \in 1..(2 * reps + Len(tail)) |-> 3 * (k - 1)])
  /\ speed = <<>>
  /\ brake = <<>>
  /\ gear = <<>>
  /\ pc = "scan"
  /\ result = [none |-> TRUE]
  /\ IdleCorner
  /\ Fetched
  /\ IdleStint

NextThrottle ==
  \/ ThrottleAnalysis
  \/ ThrottleRaise

SpecThrottle == InitThrottle /\ [][NextThrottle]_vars

(***************************************************************************)
(* Lap tables explored by the tire analyzer: up to MaxStintGroups groups   *)
(* of laps that share a Compound cell, one lap possibly without lap time.  *)
(***************************************************************************)
SOFT == <<"S", "O", "F", "T">>

Soft == <<"S", "o", "f", "t">>

MEDIUM == <<"M", "E", "D", "I", "U", "M">>

CompoundCells == {SOFT, Soft, MEDIUM, NaN}

GroupLens == {1, 3, 5}

LapTimeProfiles == {"rising", "jagged"}

LapTimeOf(profile, k) == IF profile = "rising" THEN 90 + k ELSE 90 + ((k * k) % 7)

GroupCells(groups) == Flatten([k \in 1..Len(groups) |-> Rep(groups[k].compound, groups[k].n)])

InitStint ==
  /\ cmd = "tire-degradation"
  /\ \E groups \in SeqsUpTo([compound : CompoundCells, n : GroupLens], MaxStintGroups),
        profile \in LapTimeProfiles, noTime \in {0, 2} :
       driver_laps = [k \in 1..Len(GroupCells(groups)) |->
                        [LapNumber |-> k,
                         Compound |-> GroupCells(groups)[k],
                         LapTime |-> IF k = noTime THEN NaT ELSE LapTimeOf(profile, k)]]
  /\ StintStart
  /\ absent = {}
  /\ speed = <<>>
  /\ distance = <<>>
  /\ brake = <<>>
  /\ throttle = <<>>
  /\ gear = <<>>
  /\ pc = "scan"
  /\ result = [none |-> TRUE]
  /\ IdleCorner
  /\ Fetched

NextStint ==
  \/ StintLap
  \/ StintReturn

SpecStint == InitStint /\ [][NextStint]_vars

(***************************************************************************)
(* Laps explored by the gear analyzer: every gear series of up to          *)
(* MaxGearLen samples, or no nGear column.                                 *)
(***************************************************************************)
GearValues == {0, 1, 2, 8, 9}

InitGear ==
  /\ cmd = "gear-usage"
  /\ absent \in SUBSET {"nGear"}
  /\ \E g \in SeqsUpTo(GearValues, MaxGearLen) :
       /\ absent = {} \/ Len(g) = 1
       /\ gear = Channel("nGear", g)
  /\ speed = <<>>
  /\ distance = <<>>
  /\ brake = <<>>
  /\ throttle = <<>>
  /\ pc = "scan"
  /\ result = [none |-> TRUE]
  /\ IdleCorner
  /\ Fetched
  /\ IdleStint

NextGear ==
  \/ GearAnalysis

SpecGear == InitGear /\ [][NextGear]_vars

(***************************************************************************)
(* Lap tables explored by the fuel analyzer: up to MaxFuelLaps laps, each  *)
(* with one of two lap times or none.                                      *)
(***************************************************************************)
FuelLapTimes == {NaT, 90, 92}

InitFuel ==
  /\ cmd = "fuel-effect"
  /\ \E times \in SeqsUpTo(FuelLapTimes, MaxFuelLaps) :
       driver_laps = [k \in 1..Len(times) |->
                        [LapNumber |-> k, Compound |-> SOFT, LapTime |-> times[k]]]
  /\ StintStart
  /\ absent = {}
  /\ speed = <<>>
  /\ distance = <<>>
  /\ brake = <<>>
  /\ throttle = <<>>
  /\ gear = <<>>
  /\ pc = "scan"
  /\ result = [none |-> TRUE]
  /\ IdleCorner
  /\ Fetched

NextFuel ==
  \/ FuelEffect

SpecFuel == InitFuel /\ [][NextFuel]_vars

(***************************************************************************)
(* Laps explored by the energy analysis: up to MaxEnergyLen samples of     *)
(* throttle, brake and speed, out-of-scale speeds among them.              *)
(***************************************************************************)
EnergySamples == [throttle : {20, 50, 95}, brake : {0, 100}, speed : {0, 300, 100000}]

InitEnergy ==
  /\ cmd = "energy-analysis"
  /\ absent \in SUBSET {"Throttle", "Brake", "Speed"}
  /\ \E samples \in SeqsUpTo(EnergySamples, MaxEnergyLen) :
       /\ absent = {} \/ Len(samples) = 1
       /\ throttle = Channel("Throttle", [k \in 1..Len(samples) |-> samples[k].throttle])
       /\ brake = Channel("Brake", [k \in 1..Len(samples) |-> samples[k].brake])
       /\ speed = Channel("Speed", [k \in 1..Len(samples) |-> samples[k].speed])
  /\ distance = <<>>
  /\ gear = <<>>
  /\ pc = "scan"
  /\ result = [none |-> TRUE]
  /\ IdleCorner
  /\ Fetched
  /\ IdleStint

NextEnergy ==
  \/ EnergyAnalysis

SpecEnergy == InitEnergy /\ [][NextEnergy]_vars

(***************************************************************************)
(* Invocations explored for main: every command, an unknown one or none,   *)
(* with up to MaxArgc words on the command line.                           *)
(***************************************************************************)
InitMain ==
  /\ argc \in 1..MaxArgc
  /\ cmd \in Commands \cup {"bogus", "none"}
  /\ (cmd = "none") <=> (argc = 1)
  /\ fetch_drivers \in 0..4
  /\ cmd = "session" \/ fetch_drivers = 0
  /\ calls = <<>>
  /\ stdout = <<>>
  /\ stderr = <<>>
  /\ exit_status = Running
  /\ pc = "start"
  /\ result = [none |-> TRUE]
  /\ absent = {}
  /\ speed = <<>>
  /\ distance = <<>>
  /\ brake = <<>>
  /\ throttle = <<>>
  /\ gear = <<>>
  /\ i = 30
  /\ corners = <<>>
  /\ cornerIdx = <<>>
  /\ last_corner_dist = -min_corner_distance
  /\ IdleStint

NextMain ==
  \/ Usage
  \/ Dispatch
  \/ ProviderCall
  \/ LocalFailure
  \/ Return
  \/ PrintResult
  \/ ReportError

SpecMain == InitMain /\ [][NextMain]_vars

(***************************************************************************)
(* The corner scan alone on the same laps, as a process that keeps running *)
(* until it returns or raises.                                             *)
(***************************************************************************)
InitScan ==
  /\ cmd = "corner-analysis"
  /\ \E segs \in SeqsUpTo(Segments, MaxScanSegs), dstep \in DSteps :
       /\ absent \in SUBSET Channels
       /\ absent = {} \/ Len(segs) = 3
       /\ speed = Channel("Speed", LapSpeed(segs))
       /\ distance = Channel("Distance", LapDistance(segs, dstep))
       /\ brake = Channel("Brake", LapBrake(segs))
       /\ throttle = Channel("Throttle", LapThrottle(segs))
  /\ gear = <<>>
  /\ pc = "scan"
  /\ result = [none |-> TRUE]
  /\ IdleCorner
  /\ Fetched
  /\ IdleStint

NextScan ==
  \/ CornerAccept
  \/ CornerReject
  \/ CornerAdvance
  \/ CornerRaise
  \/ CornerReturn

SpecScan == InitScan /\ [][NextScan]_vars /\ WF_vars(NextScan)

(***************************************************************************)
(* Properties.                                                             *)
(***************************************************************************)
\* the channels of the lap are co-indexed and distance never decreases
CoIndexed ==
  /\ Len(distance) = Len(speed)
  /\ Len(brake) = Len(speed)
  /\ Len(throttle) = Len(speed)
  /\ \A k \in 1..(Len(distance) - 1) : distance[k] <= distance[k + 1]

NumberedAndIncreasing(cs) ==
  \A k \in 1..Len(cs) :
    /\ cs[k].cornerNumber = k
    /\ k > 1 => cs[k - 1].apex.distance < cs[k].apex.distance

\* C1: on a co-indexed, distance-ordered lap the corners found so far, and
\* the corner list get_corner_analysis returns, have strictly increasing
\* apex distance and the k-th corner is numbered k.
C1_CornersOrdered ==
  (cmd = "corner-analysis" /\ CoIndexed) =>
    /\ NumberedAndIncreasing(corners)
    /\ pc = "done" => result.corners = corners

\* a returned list of at least two corners
C1_Witness ==
  /\ cmd = "corner-analysis" /\ CoIndexed /\ pc = "done"
  /\ Len(result.corners) >= 2

\* C2: the downforceIndex that get_downforce_analysis returns lies in
\* [0, 100] for every speed series.
C2_DownforceIndexInRange ==
  (cmd = "downforce-analysis" /\ pc = "done") =>
    /\ MixedGeq(result.downforceIndex, 0)
    /\ MixedLeq(result.downforceIndex, 100)

\* every sample of the speed series equals v
ConstantSpeed(v) == Len(speed) > 0 /\ \A j \in 1..Len(speed) : speed[j] = v

NoBraking == \A j \in 1..Len(brake) : brake[j] = 0

\* the fraction f equals the integer v
FracEq(f, v) == f[1] = v * f[2]

\* C3: on a lap of constant speed v the downforce analysis reports variance
\* 0, a high-speed average of v and so an aerodynamic efficiency of v; for
\* 100 samples at 200 without braking there are no corners and no brake zones.
C3_ConstantSpeedLap ==
  \A v \in {20, 200} :
    (ConstantSpeed(v) /\ pc = "done") =>
      /\ cmd = "downforce-analysis" =>
           /\ FracEq(result.speedVariance, 0)
           /\ FracEq(result.highSpeedAvg, v)
           /\ result.aerodynamicEfficiency.num[1] * result.aerodynamicEfficiency.den[2]
                = v * result.aerodynamicEfficiency.num[2] * result.aerodynamicEfficiency.den[1]
      /\ (v = 200 /\ Len(speed) = 100 /\ NoBraking) =>
           /\ cmd = "corner-analysis" => result.corners = <<>>
           /\ cmd = "brake-analysis" => result.brakeZones = <<>>

\* C4: with any combination of absent channels no analyzer raises, and the
\* corner analysis returns an empty corner list.
C4_AbsentChannelsDefault ==
  absent # {} =>
    /\ pc # "raised"
    /\ (cmd = "corner-analysis" /\ pc = "done") => result.corners = <<>>

\* number of samples of a returned zone: duration is samples / 100
ZoneSamples(z) == z.duration[1]

Braking(j) == At(brake, j) > 10

\* first samples of the maximal runs of braking samples
RunStarts == {a \in 0..(Len(brake) - 1) : Braking(a) /\ (a = 0 \/ ~Braking(a - 1))}

\* last sample of the maximal run that starts at a
RunEnd(a) ==
  CHOOSE b \in a..(Len(brake) - 1) :
    /\ b = Len(brake) - 1 \/ ~Braking(b + 1)
    /\ \A c \in a..b : Braking(c)

\* the elements of a set of integers in increasing order
RECURSIVE Sorted(_)
Sorted(S) ==
  IF S = {} THEN <<>>
  ELSE <<CHOOSE x \in S : \A y \in S : x <= y>>
         \o Sorted(S \ {CHOOSE x \in S : \A y \in S : x <= y})

\* start distance, end distance and length of the maximal runs of at least
\* 5 samples, in lap order
LongRuns ==
  LET starts == Sorted({a \in RunStarts : RunEnd(a) - a + 1 >= 5})
  IN  [k \in 1..Len(starts) |->
         <<At(distance, starts[k]), At(distance, RunEnd(starts[k])),
           RunEnd(starts[k]) - starts[k] + 1>>]

\* C6: the zones found before the cap are exactly the maximal runs of
\* brake > 10 that are at least 5 samples long, a run still in progress at
\* the last sample included.
C6_ZonesAreLongRuns ==
  (cmd = "brake-analysis" /\ pc = "done") =>
    LET found == FoundBrakeZones.brake_zones
    IN  [k \in 1..Len(found) |->
           <<found[k].startDistance, found[k].endDistance, ZoneSamples(found[k])>>]
        = LongRuns

\* the indices i >= 1 where throttle crosses upward from < 50 to >= 50
Crossings ==
  {k \in 1..(Len(throttle) - 1) : At(throttle, k - 1) < 50 /\ At(throttle, k) >= 50}

\* C7: the application points are the crossings at every index i >= 1, the
\* final sample included, and the output is the first 15 of them in index
\* order.
C7_PointsAreCrossings ==
  (cmd = "throttle-trace" /\ pc = "done") =>
    LET ks == Sorted(Crossings)
    IN  result.throttleApplicationPoints =
          [n \in 1..Min2(15, Len(ks)) |->
             [distance |-> At(distance, ks[n]), throttleLevel |-> At(throttle, ks[n])]]

\* the laps the tire analyzer retains: both compound and lap time present
Retained == SelectSeq(driver_laps, LAMBDA lap : notna(lap.Compound, NaN) /\ notna(lap.LapTime, NaT))

\* the laps of the returned stints, one after the other
StintLapsInOrder == Flatten([k \in 1..Len(result.stints) |-> result.stints[k].laps])

SoftThenMedium ==
  /\ Len(driver_laps) = 10
  /\ \A k \in 1..10 :
       /\ driver_laps[k].Compound = IF k <= 5 THEN SOFT ELSE MEDIUM
       /\ notna(driver_laps[k].LapTime, NaT)

\* C8: the stints are non-empty and single-compound, adjacent stints differ in
\* compound, the stints concatenated reproduce the retained laps in order, and
\* [SOFT]x5 then [MEDIUM]x5 gives exactly two stints of five laps.
C8_StintsPartitionLaps ==
  (cmd = "tire-degradation" /\ pc = "done") =>
    /\ \A k \in 1..Len(result.stints) :
         /\ result.stints[k].laps # <<>>
         /\ \A n \in 1..Len(result.stints[k].laps) :
              Upper(driver_laps[result.stints[k].laps[n].lapNumber].Compound)
                = result.stints[k].compound
    /\ \A k \in 1..(Len(result.stints) - 1) :
         result.stints[k].compound # result.stints[k + 1].compound
    /\ StintLapsInOrder =
         [k \in 1..Len(Retained) |->
            [lapNumber |-> Retained[k].LapNumber, time |-> Retained[k].LapTime]]
    /\ SoftThenMedium =>
         /\ Len(result.stints) = 2
         /\ Len(result.stints[1].laps) = 5
         /\ Len(result.stints[2].laps) = 5

\* [SOFT]x5 then [MEDIUM]x5 has been analysed
C8_Witness ==
  /\ cmd = "tire-degradation" /\ pc = "done"
  /\ SoftThenMedium
  /\ Len(result.stints) = 2

\* a lap was skipped and two groups that differ only in letter case merged
C8_WitnessMerged ==
  /\ cmd = "tire-degradation" /\ pc = "done"
  /\ Len(Retained) < Len(driver_laps)
  /\ \E k \in 1..Len(result.stints) :
       \E m, n \in 1..Len(result.stints[k].laps) :
         driver_laps[result.stints[k].laps[m].lapNumber].Compound
           # driver_laps[result.stints[k].laps[n].lapNumber].Compound

\* C9: a stint of fewer than 3 laps reports degradation 0, any other stint
\* (last lap time - first lap time) / number of laps of that stint.
C9_DegradationFirstLast ==
  (cmd = "tire-degradation" /\ pc = "done") =>
    \A k \in 1..Len(result.stints) :
      LET laps == result.stints[k].laps
          deg == result.stints[k].degradation
      IN  IF Len(laps) < 3
            THEN deg[1] = 0
            ELSE deg[1] * Len(laps) = (laps[Len(laps)].time - laps[1].time) * deg[2]

\* a two-lap stint whose lap times differ next to a longer stint with a
\* non-zero degradation
C9_Witness ==
  /\ cmd = "tire-degradation" /\ pc = "done"
  /\ \E k \in 1..Len(result.stints) :
       /\ Len(result.stints[k].laps) = 2
       /\ result.stints[k].laps[1].time # result.stints[k].laps[2].time
  /\ \E k \in 1..Len(result.stints) :
       /\ Len(result.stints[k].laps) >= 3
       /\ result.stints[k].degradation[1] # 0

GearKeys == {"gear1", "gear2", "gear3", "gear4", "gear5", "gear6", "gear7", "gear8"}

GearNumber(key) ==
  CASE key = "gear1" -> 1 [] key = "gear2" -> 2 [] key = "gear3" -> 3 [] key = "gear4" -> 4
    [] key = "gear5" -> 5 [] key = "gear6" -> 6 [] key = "gear7" -> 7 [] key = "gear8" -> 8

Count(g) == Cardinality({k \in 1..Len(gear) : gear[k] = g})

\* C10: exactly the buckets gear1..gear8 are reported; each is the share of
\* the samples in that gear, so in [0,100]; the buckets sum to at most 100,
\* and to 100 exactly when the series is non-empty and every gear is in 1..8;
\* for an empty series every bucket is 0.
C10_GearBuckets ==
  (cmd = "gear-usage" /\ pc = "done") =>
    LET u == result.gearUsage
        n == Len(gear)
        inRange == Cardinality({k \in 1..n : gear[k] \in 1..8})
    IN  /\ DOMAIN u = GearKeys
        /\ \A key \in GearKeys :
             /\ u[key][2] > 0
             /\ 0 <= u[key][1] /\ u[key][1] <= 100 * u[key][2]
             /\ IF n = 0 THEN u[key][1] = 0
                ELSE u[key][1] * n = 100 * Count(GearNumber(key)) * u[key][2]
        /\ \A key \in GearKeys : u[key][2] = u["gear1"][2]
        /\ SumSeq([g \in 1..8 |-> u[GearKey(g)][1]]) <= 100 * u["gear1"][2]
        /\ (SumSeq([g \in 1..8 |-> u[GearKey(g)][1]]) = 100 * u["gear1"][2])
             <=> (n > 0 /\ inRange = n)

\* a series with gears inside and outside 1..8 has been analysed
C10_Witness ==
  /\ cmd = "gear-usage" /\ pc = "done"
  /\ \E j, k \in 1..Len(gear) : gear[j] \in 1..8 /\ gear[k] \notin 1..8
  /\ SumSeq([g \in 1..8 |-> result.gearUsage[GearKey(g)][1]]) < 100 * Len(gear)

\* the number of throttle samples in the set S
ThrottleCount(S) == Cardinality({k \in 1..Len(throttle) : throttle[k] \in S})

\* C11: every throttle sample is counted in exactly one of full (>= 95),
\* partial (> 20 and < 95) and coasting (<= 20), so the three percentages of
\* a non-empty series add up to 100; for an empty series all three are 0.
C11_ThrottleClassesPartition ==
  (cmd = "throttle-trace" /\ pc = "done") =>
    LET n == Len(throttle)
        full == result.fullThrottlePct
        partial == result.partialThrottlePct
        coast == result.coastPct
    IN  IF n = 0
          THEN full[1] = 0 /\ partial[1] = 0 /\ coast[1] = 0
          ELSE /\ full = <<100 * ThrottleCount(95..100), n>>
               /\ partial = <<100 * ThrottleCount(21..94), n>>
               /\ coast = <<100 * ThrottleCount(0..20), n>>
               /\ full[1] + partial[1] + coast[1] = 100 * n

\* a lap with samples in each of the three classes, the boundary values 20 and
\* 95 among them, has been analysed
C11_Witness ==
  /\ cmd = "throttle-trace" /\ pc = "done"
  /\ \E a, b, c \in 1..Len(throttle) :
       throttle[a] = 20 /\ throttle[b] = 95 /\ throttle[c] \in 21..94
  /\ result.fullThrottlePct[1] > 0 /\ result.partialThrottlePct[1] > 0 /\ result.coastPct[1] > 0

\* the number of the driver's laps that have a lap time
ValidLapCount == Cardinality({k \in 1..Len(driver_laps) : driver_laps[k].LapTime # NaT})

\* C12: with fewer than 5 valid laps the result reports 0 under both
\* fuelEffect and fuelEffectPerLap; with 5 or more, totalFuelEffect is
\* fuelEffectPerLap times the number of valid laps.
C12_FuelEffectFields ==
  (cmd = "fuel-effect" /\ pc = "done") =>
    IF ValidLapCount < 5
      THEN /\ {"fuelEffect", "fuelEffectPerLap"} \subseteq DOMAIN result
           /\ result.fuelEffect[1] = 0
           /\ result.fuelEffectPerLap[1] = 0
      ELSE /\ {"fuelEffectPerLap", "totalFuelEffect"} \subseteq DOMAIN result
           /\ result.totalFuelEffect[1] * result.fuelEffectPerLap[2]
                = result.fuelEffectPerLap[1] * ValidLapCount * result.totalFuelEffect[2]

InRange0To100(x) == MixedGeq(x, 0) /\ MixedLeq(x, 100)

RECURSIVE Gcd(_, _)
Gcd(a, b) == IF b = 0 THEN a ELSE Gcd(b, a % b)

\* x with its fraction part in lowest terms
Lowest(x) == [w |-> x.w, n |-> x.n \div Gcd(x.n, x.d), d |-> x.d \div Gcd(x.n, x.d)]

MixedEq(x, y) == Lowest(x) = Lowest(y)

Clamp0To100(x) ==
  IF x.w < 0 THEN MixedOf(0, 1) ELSE IF x.w >= 100 THEN MixedOf(100, 1) ELSE x

\* C13: puStress and efficiencyScore lie in [0,100]; puStress is
\* clamp(0,100, 0.8 x fullThrottlePct + 0.2 x (100 - liftAndCoastPct)) and
\* efficiencyScore is clamp(0,100, 0.6 x (100 - liftAndCoastPct)
\* + 0.4 x (energyRecovery / 100)).
C13_EnergyScoresClamped ==
  (cmd = "energy-analysis" /\ pc = "done") =>
    LET full == result.fullThrottlePct
        lift == result.liftAndCoastPct
        rec == result.estimatedEnergyRecovery
    IN  /\ InRange0To100(result.puStress)
        /\ InRange0To100(result.efficiencyScore)
        /\ MixedEq(result.puStress,
                   Clamp0To100(MixedAdd(MixedOf(8 * full[1], 10 * full[2]),
                                        MixedOf(2 * (100 * lift[2] - lift[1]), 10 * lift[2]))))
        /\ MixedEq(result.efficiencyScore,
                   Clamp0To100(MixedAdd(MixedOf(6 * (100 * lift[2] - lift[1]), 10 * lift[2]),
                                        MixedOf(4 * rec[1], 1000 * rec[2]))))

\* a lap whose unclamped efficiency score is above 100 has been analysed
C13_Witness ==
  /\ cmd = "energy-analysis" /\ pc = "done"
  /\ MixedGeq(efficiency_score(result.liftAndCoastPct, result.estimatedEnergyRecovery), 101)
  /\ result.efficiencyScore = MixedOf(100, 1)

\* the command line names no command, an unknown one, or a command with
\* fewer arguments than it requires
BadArguments == argc < 2 \/ cmd \notin Commands \/ argc < Required(cmd)

\* C14: with missing arguments, no command or an unknown command the process
\* reports a usage error and exits non-zero, and no call to the data provider
\* is ever made.
C14_UsageErrorBeforeDataAccess ==
  BadArguments =>
    /\ calls = <<>>
    /\ pc \in {"start", "except", "exit"}
    /\ exit_status \in {Running, 1}
    /\ pc = "exit" =>
         /\ exit_status = 1
         /\ \/ stdout = <<"Usage: python f1_data_fetcher.py <command> [args...]">>
            \/ stderr = <<"Usage">>
            \/ stderr = <<"Unknown command">>

\* a recognised command with too few arguments has ended
C14_Witness ==
  /\ cmd \in Commands /\ argc >= 2 /\ argc < Required(cmd)
  /\ pc = "exit" /\ exit_status = 1 /\ stderr = <<"Usage">> /\ calls = <<>>

\* C15: an invocation ends either in success, with exactly one JSON document
\* on standard output and exit status 0, or in failure, with an error on
\* standard error, a non-zero exit status and nothing on standard output.
C15_TwoOutcomes ==
  pc = "exit" =>
    \/ exit_status = 0 /\ Len(stdout) = 1 /\ stderr = <<>>
    \/ exit_status # 0 /\ Len(stderr) = 1 /\ stdout = <<>>

FirstBraking(c) ==
  LET window == {j \in Max2(0, c - 35)..(c - 1) : At(brake, j) > 25}
  IN  IF window = {} THEN c ELSE CHOOSE j \in window : \A k \in window : j <= k

\* the loop is at a candidate: the speed drop and the spacing tests passed
\* and no index error occurs
AtCandidate ==
  /\ cmd = "corner-analysis" /\ pc = "scan"
  /\ InLoop
  /\ Outcome \in {"accept", "reject"}

\* C17: the brake point of a candidate at index i is the first index from
\* max(0, i - 35) up to but excluding i with brake > 25, and i itself if the
\* window has no such index; this is the brake point every corner reports.
C17_BrakePointFirstMatch ==
  (cmd = "corner-analysis" /\ CoIndexed) =>
    /\ AtCandidate => brake_point_idx = FirstBraking(i)
    /\ Len(cornerIdx) = Len(corners)
    /\ \A k \in 1..Len(cornerIdx) :
         /\ cornerIdx[k].brakePoint = FirstBraking(cornerIdx[k].cand)
         /\ corners[k].brakePoint =
              [distance |-> At(distance, FirstBraking(cornerIdx[k].cand)),
               speed |-> At(speed, FirstBraking(cornerIdx[k].cand)),
               brakeForce |-> At(brake, FirstBraking(cornerIdx[k].cand))]

\* a reported corner whose window holds a later sample with brake > 25
C17_Witness ==
  /\ cmd = "corner-analysis" /\ CoIndexed /\ pc = "done"
  /\ \E k \in 1..Len(cornerIdx) :
       \E j \in (cornerIdx[k].brakePoint + 1)..(cornerIdx[k].cand - 1) : At(brake, j) > 25

\* a candidate with no braking in its window: the brake point is the
\* candidate index
C17_WitnessNoBraking ==
  /\ AtCandidate /\ CoIndexed
  /\ brake_point_idx = i

\* the minimum speed over the window [c, c + 40), cut at the end of the lap
MinSpeedFrom(c) ==
  CHOOSE v \in {At(speed, j) : j \in c..(Min2(c + 40, Len(speed)) - 1)} :
    \A j \in c..(Min2(c + 40, Len(speed)) - 1) : v <= At(speed, j)

\* speed at the brake point minus speed at the apex, for a candidate at c
DeltaOf(c) == At(speed, FirstBraking(c)) - MinSpeedFrom(c)

DeltasAbove25 ==
  (cmd = "corner-analysis" /\ CoIndexed) =>
    \A k \in 1..Len(corners) :
      /\ corners[k].speedDelta = DeltaOf(cornerIdx[k].cand)
      /\ corners[k].speedDelta = corners[k].brakePoint.speed - corners[k].apex.minSpeed
      /\ corners[k].speedDelta > 25

RejectLeavesNoTrace ==
  (AtCandidate /\ CoIndexed /\ DeltaOf(i) <= 25) =>
    UNCHANGED <<corners, cornerIdx, last_corner_dist>>

\* C18: every corner's speedDelta is the speed at its brake point minus the
\* speed at its apex and exceeds 25; a candidate whose delta is 25 or less
\* adds no corner, uses no corner number and leaves the previous-corner apex
\* distance as it was.
C18_OnlySignificantCorners == []DeltasAbove25 /\ [][RejectLeavesNoTrace]_vars

\* after a corner was accepted, the scan is at a candidate that it rejects
C18_Witness ==
  /\ AtCandidate /\ CoIndexed
  /\ Len(corners) >= 1
  /\ DeltaOf(i) <= 25

\* the earliest index of [c, c + 40) at which the speed is the window's minimum
EarliestMinFrom(c) ==
  CHOOSE j \in c..(Min2(c + 40, Len(speed)) - 1) :
    /\ At(speed, j) = MinSpeedFrom(c)
    /\ \A k \in c..(j - 1) : At(speed, k) > MinSpeedFrom(c)

\* C20: for every reported corner, brake-point index <= candidate index <=
\* apex index <= exit index, the apex is less than 40 past the candidate and
\* the exit less than 40 past the apex; so on a distance-ordered lap the three
\* distances are ordered; and the apex is the earliest index of minimum speed
\* in [candidate, candidate + 40).
C20_CornerIndicesOrdered ==
  (cmd = "corner-analysis" /\ CoIndexed) =>
    \A k \in 1..Len(cornerIdx) :
      /\ cornerIdx[k].brakePoint <= cornerIdx[k].cand
      /\ cornerIdx[k].cand <= cornerIdx[k].apex
      /\ cornerIdx[k].apex <= cornerIdx[k].exit
      /\ cornerIdx[k].apex < cornerIdx[k].cand + 40
      /\ cornerIdx[k].exit < cornerIdx[k].apex + 40
      /\ corners[k].brakePoint.distance <= corners[k].apex.distance
      /\ corners[k].apex.distance <= corners[k].exit.distance
      /\ cornerIdx[k].apex = EarliestMinFrom(cornerIdx[k].cand)
      /\ corners[k].apex.minSpeed = MinSpeedFrom(cornerIdx[k].cand)
      /\ corners[k].apex.distance = At(distance, cornerIdx[k].apex)
      /\ corners[k].exit.distance = At(distance, cornerIdx[k].exit)

\* a reported corner whose minimum speed occurs again after the apex, with
\* brake point, apex and exit at three different indices
C20_Witness ==
  /\ cmd = "corner-analysis" /\ CoIndexed /\ pc = "done"
  /\ \E k \in 1..Len(cornerIdx) :
       /\ cornerIdx[k].brakePoint < cornerIdx[k].apex
       /\ cornerIdx[k].apex < cornerIdx[k].exit
       /\ \E j \in (cornerIdx[k].apex + 1)..(cornerIdx[k].cand + 39) :
            At(speed, j) = corners[k].apex.minSpeed

CursorFrom30 ==
  /\ i >= 30
  /\ Len(speed) <= 70 => corners = <<>> /\ (pc = "done" => result.corners = <<>>)

\* one iteration of the scan loop that does not raise
CursorStep ==
  (pc = "scan" /\ InLoop /\ pc' = "scan") =>
    /\ i' > i
    /\ IF corners' # corners
         THEN i' = cornerIdx'[Len(cornerIdx')].exit + 20
         ELSE i' = i + 5
    /\ i' = i + 1 => i <= 20

\* C19: the scan cursor starts at 30 and strictly increases on every loop
\* iteration, to exit index + 20 after an accepted corner and by 5 otherwise
\* (by 1 only at indices of 20 or less); the scan terminates, and a lap of 70
\* or fewer samples yields no corners.
C19_CursorAdvancesAndTerminates ==
  []CursorFrom30 /\ [][CursorStep]_vars /\ <>(pc # "scan")

\* the scan has returned after skipping from 30 to a later candidate and
\* accepting it
C19_Witness ==
  /\ pc = "done" /\ Len(corners) >= 1
  /\ cornerIdx[1].cand > 30
  /\ i >= cornerIdx[Len(cornerIdx)].exit + 20

====
